---- MODULE Spec2Model ----
(***************************************************************************)
(* Model of scp-action (src/main.go): one run of the process.  The main    *)
(* goroutine parses the environment, builds the SSH session to the target  *)
(* (directly or tunnelled through a proxy session) and copies the source   *)
(* files one by one; the watchdog goroutine waits on the action timer and  *)
(* kills the process when it fires.                                        *)
(*                                                                         *)
(* Paths and the SOURCE / TARGET inputs are sequences of one-character     *)
(* strings, so that strings.Split, strings.TrimSpace, path.Split and       *)
(* path.Join are computed character by character.                          *)
(***************************************************************************)
EXTENDS Integers, Sequences, FiniteSets, TLC

\* Largest number of newline-separated segments of the SOURCE input.
MaxFiles == 3

DirectionUpload == "upload"
DirectionDownload == "download"

-----------------------------------------------------------------------------
(* Inputs the environment can hold.                                        *)

Durations == {"10m", "abc", ""}
DirectionInputs == {DirectionUpload, DirectionDownload, "sync"}
HostInputs == {"", "t.example"}
ProxyHostInputs == {"", "p.example"}
KeyInputs == {"pem", "garbage"}
PublicKeys == {"k1", "k2"}
FingerprintInputs == {"SHA256:AAA", "SHA256:BBB", "sha256:aaa", ""}
RemoteAddrs == {"10.0.0.1:22", "10.0.0.2:22"}

\* The segments SOURCE is made of, and the TARGET inputs.
SourceSegments ==
    { <<>>, <<"a", " ">>, <<"/", "a", "/", "b">>, <<"a", "/", ".", ".">> }
TargetInputs == { <<" ", "/", "o", "/", " ">>, <<>> }

RECURSIVE JoinSegments(_)
JoinSegments(segs) ==
    IF Len(segs) = 1 THEN segs[1]
    ELSE segs[1] \o <<"\n">> \o JoinSegments(Tail(segs))

SourceInputs ==
    { JoinSegments(segs) :
        segs \in UNION { [1..n -> SourceSegments] : n \in 1..MaxFiles } }

\* The inputs of the runs checked for termination: what a run does next never
\* depends on the characters of a path, only on how many sources there are.
MaxFilesLive == 2
SourceInputsLive ==
    { JoinSegments([i \in 1..n |-> <<"a">>]) : n \in 1..MaxFilesLive }
TargetInputsLive == { <<>> }

-----------------------------------------------------------------------------
(* Library functions the code calls, computed as the library computes them. *)

\* time.ParseDuration: err = nil exactly for a well-formed duration.
ParseDurationOk(s) == s = "10m"

\* ssh.ParsePrivateKey: err = nil exactly for well-formed key material.
ParsePrivateKeyOk(k) == k = "pem"

\* ssh.FingerprintSHA256: the canonical text form of the key's SHA-256 digest.
FingerprintSHA256(pubKey) ==
    CASE pubKey = "k1" -> "SHA256:AAA"
      [] pubKey = "k2" -> "SHA256:BBB"

\* strings.Index / strings.LastIndex for a one-character separator
\* (1-based, 0 when absent).
RECURSIVE Index(_, _)
Index(s, c) ==
    IF s = <<>> THEN 0
    ELSE IF Head(s) = c THEN 1
    ELSE LET i == Index(Tail(s), c) IN IF i = 0 THEN 0 ELSE i + 1

RECURSIVE LastIndex(_, _)
LastIndex(s, c) ==
    IF s = <<>> THEN 0
    ELSE IF s[Len(s)] = c THEN Len(s)
    ELSE LastIndex(SubSeq(s, 1, Len(s) - 1), c)

\* strings.Split(s, sep): every segment between separators, empty ones kept.
RECURSIVE StringsSplit(_, _)
StringsSplit(s, sep) ==
    LET i == Index(s, sep) IN
    IF i = 0 THEN << s >>
    ELSE << SubSeq(s, 1, i - 1) >> \o StringsSplit(SubSeq(s, i + 1, Len(s)), sep)

WhiteSpace == {" ", "\n", "\t", "\r"}

\* strings.TrimSpace: leading and trailing white space removed.
RECURSIVE TrimLeft(_)
TrimLeft(s) ==
    IF s # <<>> /\ Head(s) \in WhiteSpace THEN TrimLeft(Tail(s)) ELSE s

RECURSIVE TrimRight(_)
TrimRight(s) ==
    IF s # <<>> /\ s[Len(s)] \in WhiteSpace
    THEN TrimRight(SubSeq(s, 1, Len(s) - 1)) ELSE s

TrimSpace(s) == TrimRight(TrimLeft(s))

\* path.Split: the directory (up to and including the last slash) and the file.
PathSplit(p) ==
    LET i == LastIndex(p, "/") IN << SubSeq(p, 1, i), SubSeq(p, i + 1, Len(p)) >>

\* path.Clean: the element stack after dropping "", "." and resolving "..".
RECURSIVE CleanStack(_, _, _)
CleanStack(elems, stack, rooted) ==
    IF elems = <<>> THEN stack
    ELSE LET e == Head(elems)
             r == Tail(elems)
         IN  IF e = <<>> \/ e = <<".">> THEN CleanStack(r, stack, rooted)
             ELSE IF e = <<".", ".">>
                  THEN IF stack # <<>> /\ stack[Len(stack)] # <<".", ".">>
                       THEN CleanStack(r, SubSeq(stack, 1, Len(stack) - 1), rooted)
                       ELSE IF rooted THEN CleanStack(r, stack, rooted)
                       ELSE CleanStack(r, Append(stack, e), rooted)
                  ELSE CleanStack(r, Append(stack, e), rooted)

RECURSIVE JoinSlash(_)
JoinSlash(elems) ==
    IF elems = <<>> THEN <<>>
    ELSE IF Len(elems) = 1 THEN elems[1]
    ELSE elems[1] \o <<"/">> \o JoinSlash(Tail(elems))

PathClean(p) ==
    IF p = <<>> THEN <<".">>
    ELSE LET rooted == p[1] = "/"
             body == JoinSlash(CleanStack(StringsSplit(p, "/"), <<>>, rooted))
             res == (IF rooted THEN <<"/">> ELSE <<>>) \o body
         IN  IF res = <<>> THEN <<".">> ELSE res

\* path.Join of two elements: empty elements ignored, the rest joined by a
\* slash and cleaned; "" when both are empty.
PathJoin(a, b) ==
    IF a = <<>> /\ b = <<>> THEN <<>>
    ELSE IF a = <<>> THEN PathClean(b)
    ELSE PathClean(a \o <<"/">> \o b)

-----------------------------------------------------------------------------
(* VerifyFingerprint(expected) is the host key callback; the callback's     *)
(* three arguments are the last three parameters here.                      *)

\* A verifier that skips the comparison when no fingerprint is configured.
VerifyFingerprint_SkipEmpty(expected, hostname, remote, pubKey) ==
    LET fingerprint == FingerprintSHA256(pubKey) IN
    IF expected # "" /\ fingerprint # expected
    THEN "fingerprint mismatch" ELSE "nil"

VerifyFingerprint(expected, hostname, remote, pubKey) ==
    LET fingerprint == FingerprintSHA256(pubKey) IN
    IF fingerprint # expected THEN "fingerprint mismatch" ELSE "nil"

-----------------------------------------------------------------------------
VARIABLES
    pc,                \* position of the main goroutine
    wpc,               \* position of the watchdog goroutine
    timer,             \* actionTimeoutTimer: "unarmed", "armed", "fired"
    timersArmed,       \* how many times time.NewTimer has been called
    exitStatus,        \* -1 while the process runs, then its exit status
    exitBy,            \* which goroutine ended the process
    out,               \* the lines logged so far
    env,               \* the environment variables read so far
    proxyClient,       \* "nil", "open", "closed"
    targetClient,      \* "nil", "open", "closed"
    netlog,            \* the network operations started so far
    verifyLog,         \* the host key callback invocations so far
    sourceFiles,       \* main's sourceFiles
    targetFolder,      \* main's targetFolder
    idx,               \* position of the range loop in Upload / Download
    transferredFiles,  \* the local counter of Upload / Download
    mainTransferred,   \* main's transferredFiles
    copies             \* the calls of scp.CopyTo / scp.CopyFrom so far

vars == << pc, wpc, timer, timersArmed, exitStatus, exitBy, out, env,
           proxyClient, targetClient, netlog, verifyLog, sourceFiles,
           targetFolder, idx, transferredFiles, mainTransferred, copies >>

wdVars == << wpc, timer, timersArmed >>
exitVars == << exitStatus, exitBy >>
sessVars == << proxyClient, targetClient >>
xferVars == << sourceFiles, targetFolder, idx, transferredFiles,
               mainTransferred, copies >>

Alive == exitStatus = -1

direction == env.DIRECTION
\* A target configuration built with the proxy's fingerprint when there is one.
targetExpected_FromProxy ==
    IF env.PROXY_HOST \notin {"unread", ""} /\ env.PROXY_FINGERPRINT # "unread"
    THEN env.PROXY_FINGERPRINT ELSE env.FINGERPRINT

targetExpected == env.FINGERPRINT
proxyExpected == env.PROXY_FINGERPRINT
targetAddress == env.HOST \o ":" \o env.PORT
proxyAddress == env.PROXY_HOST \o ":" \o env.PROXY_PORT
useProxy == env.PROXY_HOST \notin {"unread", ""}

Init ==
    /\ pc = "parse_action_timeout"
    /\ wpc = "none"
    /\ timer = "unarmed"
    /\ timersArmed = 0
    /\ exitStatus = -1
    /\ exitBy = "none"
    /\ out = <<>>
    /\ env = [ ACTION_TIMEOUT |-> "unread", DIRECTION |-> "unread",
               TIMEOUT |-> "unread", HOST |-> "unread", KEY |-> "unread",
               FINGERPRINT |-> "unread", PORT |-> "unread",
               PROXY_HOST |-> "unread", PROXY_KEY |-> "unread",
               PROXY_FINGERPRINT |-> "unread", PROXY_PORT |-> "unread",
               SOURCE |-> <<>>, TARGET |-> <<>> ]
    /\ proxyClient = "nil"
    /\ targetClient = "nil"
    /\ netlog = <<>>
    /\ verifyLog = <<>>
    /\ sourceFiles = <<>>
    /\ targetFolder = <<>>
    /\ idx = 0
    /\ transferredFiles = 0
    /\ mainTransferred = 0
    /\ copies = <<>>

\* log.Fatalf in the main goroutine: the line is written, then os.Exit(1).
Fatalf(msg) ==
    /\ out' = Append(out, [kind |-> "fatal", by |-> "main", msg |-> msg])
    /\ pc' = "os_exit"

Goto(label) ==
    /\ pc' = label
    /\ out' = out

-----------------------------------------------------------------------------
(* main: configuration                                                      *)

ParseActionTimeout ==
    /\ Alive /\ pc = "parse_action_timeout"
    /\ \E v \in Durations :
         /\ env' = [env EXCEPT !.ACTION_TIMEOUT = v]
         /\ IF ParseDurationOk(v) THEN Goto("arm_timer")
            ELSE Fatalf("Failed to parse action timeout")
    /\ UNCHANGED << wdVars, exitVars, sessVars, netlog, verifyLog, xferVars >>

\* main goes on without creating the timer or starting the goroutine.
ArmWatchdog_Skipped ==
    /\ Alive /\ pc = "arm_timer"
    /\ Goto("parse_direction")
    /\ UNCHANGED << env, wdVars, exitVars, sessVars, netlog, verifyLog,
                    xferVars >>

\* The timer is created but the goroutine waiting on it is never started.
ArmWatchdog_NoGoroutine ==
    /\ Alive /\ pc = "arm_timer"
    /\ timer' = "armed"
    /\ timersArmed' = timersArmed + 1
    /\ wpc' = "none"
    /\ Goto("parse_direction")
    /\ UNCHANGED << env, exitVars, sessVars, netlog, verifyLog, xferVars >>

ArmWatchdog ==
    /\ Alive /\ pc = "arm_timer"
    /\ timer' = "armed"
    /\ timersArmed' = timersArmed + 1
    /\ wpc' = "waiting"
    /\ Goto("parse_direction")
    /\ UNCHANGED << env, exitVars, sessVars, netlog, verifyLog, xferVars >>

ParseDirection ==
    /\ Alive /\ pc = "parse_direction"
    /\ \E v \in DirectionInputs :
         /\ env' = [env EXCEPT !.DIRECTION = v]
         /\ IF v # DirectionDownload /\ v # DirectionUpload
            THEN Fatalf("Failed to parse direction")
            ELSE Goto("parse_timeout")
    /\ UNCHANGED << wdVars, exitVars, sessVars, netlog, verifyLog, xferVars >>

ParseTimeout ==
    /\ Alive /\ pc = "parse_timeout"
    /\ \E v \in Durations :
         /\ env' = [env EXCEPT !.TIMEOUT = v]
         /\ IF ParseDurationOk(v) THEN Goto("parse_host")
            ELSE Fatalf("Failed to parse timeout")
    /\ UNCHANGED << wdVars, exitVars, sessVars, netlog, verifyLog, xferVars >>

\* The target host is read but an empty one is not rejected.
ParseTargetHost_NoCheck ==
    /\ Alive /\ pc = "parse_host"
    /\ \E v \in HostInputs :
         /\ env' = [env EXCEPT !.HOST = v]
         /\ Goto("parse_key")
    /\ UNCHANGED << wdVars, exitVars, sessVars, netlog, verifyLog, xferVars >>

ParseTargetHost ==
    /\ Alive /\ pc = "parse_host"
    /\ \E v \in HostInputs :
         /\ env' = [env EXCEPT !.HOST = v]
         /\ IF v = "" THEN Fatalf("Failed to parse target host")
            ELSE Goto("parse_key")
    /\ UNCHANGED << wdVars, exitVars, sessVars, netlog, verifyLog, xferVars >>

ParseTargetKey ==
    /\ Alive /\ pc = "parse_key"
    /\ \E v \in KeyInputs :
         /\ env' = [env EXCEPT !.KEY = v]
         /\ IF ParsePrivateKeyOk(v) THEN Goto("target_config")
            ELSE Fatalf("Failed to parse proxy key")
    /\ UNCHANGED << wdVars, exitVars, sessVars, netlog, verifyLog, xferVars >>

\* targetConfig and targetAddress: FINGERPRINT and PORT are read, unchecked.
TargetConfig ==
    /\ Alive /\ pc = "target_config"
    /\ \E f \in FingerprintInputs :
         env' = [env EXCEPT !.FINGERPRINT = f, !.PORT = "22"]
    /\ Goto("check_proxy")
    /\ UNCHANGED << wdVars, exitVars, sessVars, netlog, verifyLog, xferVars >>

CheckProxy ==
    /\ Alive /\ pc = "check_proxy"
    /\ \E v \in ProxyHostInputs :
         /\ env' = [env EXCEPT !.PROXY_HOST = v]
         /\ IF v # "" THEN Goto("parse_proxy_key") ELSE Goto("direct_dial")
    /\ UNCHANGED << wdVars, exitVars, sessVars, netlog, verifyLog, xferVars >>

ParseProxyKey ==
    /\ Alive /\ pc = "parse_proxy_key"
    /\ \E v \in KeyInputs :
         /\ env' = [env EXCEPT !.PROXY_KEY = v]
         /\ IF ParsePrivateKeyOk(v) THEN Goto("proxy_config")
            ELSE Fatalf("Failed to parse proxy key")
    /\ UNCHANGED << wdVars, exitVars, sessVars, netlog, verifyLog, xferVars >>

ProxyConfig ==
    /\ Alive /\ pc = "proxy_config"
    /\ \E f \in FingerprintInputs :
         env' = [env EXCEPT !.PROXY_FINGERPRINT = f, !.PROXY_PORT = "22"]
    /\ Goto("proxy_dial")
    /\ UNCHANGED << wdVars, exitVars, sessVars, netlog, verifyLog, xferVars >>

-----------------------------------------------------------------------------
(* main: connection setup.  Every blocking network call is two steps, the   *)
(* call and its return, so that the watchdog can act while it is pending;   *)
(* a call that never returns leaves main at "hung".                         *)

\* What a dial / handshake can meet: no connection, a peer that never
\* answers, or a peer presenting a host key (the callback then decides, and
\* user authentication follows only when the callback accepted).
HandshakeOutcomes ==
    { [kind |-> "unreachable"], [kind |-> "hang"] }
      \cup [ kind : {"key"}, key : PublicKeys, remote : RemoteAddrs,
             auth : BOOLEAN ]

\* ssh.Dial / ssh.NewClientConn for `endpoint` returning under outcome o:
\* TRUE when the session is established.
HandshakeOk(o, expected, hostname) ==
    /\ o.kind = "key"
    /\ VerifyFingerprint(expected, hostname, o.remote, o.key) = "nil"
    /\ o.auth

LogVerify(o, endpoint, expected, hostname) ==
    verifyLog' =
        IF o.kind = "key"
        THEN Append(verifyLog,
                    [ endpoint |-> endpoint, expected |-> expected,
                      hostname |-> hostname, key |-> o.key,
                      result |-> VerifyFingerprint(expected, hostname,
                                                   o.remote, o.key) ])
        ELSE verifyLog

ProxyDialStart ==
    /\ Alive /\ pc = "proxy_dial"
    /\ netlog' = Append(netlog, "proxy_dial")
    /\ Goto("proxy_dial_wait")
    /\ UNCHANGED << env, wdVars, exitVars, sessVars, verifyLog, xferVars >>

\* The error of the proxy dial is logged but main goes on to the tunnel.
ProxyDialFinish_GoesOn ==
    /\ Alive /\ pc = "proxy_dial_wait"
    /\ \E o \in HandshakeOutcomes :
         /\ LogVerify(o, "proxy", proxyExpected, proxyAddress)
         /\ IF o.kind = "hang"
            THEN Goto("hung") /\ UNCHANGED proxyClient
            ELSE IF HandshakeOk(o, proxyExpected, proxyAddress)
                 THEN proxyClient' = "open" /\ Goto("tunnel")
                 ELSE /\ out' = Append(out, [kind |-> "fatal", by |-> "main",
                                             msg |-> "Failed to connect to proxy"])
                      /\ pc' = "tunnel"
                      /\ UNCHANGED proxyClient
    /\ UNCHANGED << env, wdVars, exitVars, targetClient, netlog, xferVars >>

ProxyDialFinish ==
    /\ Alive /\ pc = "proxy_dial_wait"
    /\ \E o \in HandshakeOutcomes :
         /\ LogVerify(o, "proxy", proxyExpected, proxyAddress)
         /\ IF o.kind = "hang"
            THEN Goto("hung") /\ UNCHANGED proxyClient
            ELSE IF HandshakeOk(o, proxyExpected, proxyAddress)
                 THEN proxyClient' = "open" /\ Goto("tunnel")
                 ELSE Fatalf("Failed to connect to proxy")
                      /\ UNCHANGED proxyClient
    /\ UNCHANGED << env, wdVars, exitVars, targetClient, netlog, xferVars >>

TunnelStart ==
    /\ Alive /\ pc = "tunnel"
    /\ netlog' = Append(netlog, "tunnel")
    /\ Goto("tunnel_wait")
    /\ UNCHANGED << env, wdVars, exitVars, sessVars, verifyLog, xferVars >>

\* A failed tunnel open is tried again.
TunnelFinish_Retries ==
    /\ Alive /\ pc = "tunnel_wait"
    /\ \E r \in {"ok", "fail", "hang"} :
         CASE r = "ok" -> Goto("target_handshake")
           [] r = "fail" -> Goto("tunnel")
           [] r = "hang" -> Goto("hung")
    /\ UNCHANGED << env, wdVars, exitVars, sessVars, netlog, verifyLog,
                    xferVars >>

TunnelFinish ==
    /\ Alive /\ pc = "tunnel_wait"
    /\ \E r \in {"ok", "fail", "hang"} :
         CASE r = "ok" -> Goto("target_handshake")
           [] r = "fail" -> Fatalf("Failed to dial to target")
           [] r = "hang" -> Goto("hung")
    /\ UNCHANGED << env, wdVars, exitVars, sessVars, netlog, verifyLog,
                    xferVars >>

TargetHandshakeStart ==
    /\ Alive /\ pc = "target_handshake"
    /\ netlog' = Append(netlog, "target_handshake")
    /\ Goto("target_handshake_wait")
    /\ UNCHANGED << env, wdVars, exitVars, sessVars, verifyLog, xferVars >>

\* The session is bound to a variable of the proxy branch (":=") and the
\* targetClient the transfer uses stays nil.
TargetHandshakeFinish_Shadowed ==
    /\ Alive /\ pc = "target_handshake_wait"
    /\ \E o \in HandshakeOutcomes :
         /\ LogVerify(o, "target", targetExpected, targetAddress)
         /\ IF o.kind = "hang"
            THEN Goto("hung")
            ELSE IF HandshakeOk(o, targetExpected, targetAddress)
                 THEN Goto("read_request")
                 ELSE Fatalf("new target conn error")
    /\ UNCHANGED << env, wdVars, exitVars, sessVars, netlog, xferVars >>

TargetHandshakeFinish ==
    /\ Alive /\ pc = "target_handshake_wait"
    /\ \E o \in HandshakeOutcomes :
         /\ LogVerify(o, "target", targetExpected, targetAddress)
         /\ IF o.kind = "hang"
            THEN Goto("hung") /\ UNCHANGED targetClient
            ELSE IF HandshakeOk(o, targetExpected, targetAddress)
                 THEN targetClient' = "open" /\ Goto("read_request")
                 ELSE Fatalf("new target conn error")
                      /\ UNCHANGED targetClient
    /\ UNCHANGED << env, wdVars, exitVars, proxyClient, netlog, xferVars >>

DirectDialStart ==
    /\ Alive /\ pc = "direct_dial"
    /\ netlog' = Append(netlog, "target_dial")
    /\ Goto("direct_dial_wait")
    /\ UNCHANGED << env, wdVars, exitVars, sessVars, verifyLog, xferVars >>

\* The error of the direct dial is logged but main goes on to the transfer.
DirectDialFinish_GoesOn ==
    /\ Alive /\ pc = "direct_dial_wait"
    /\ \E o \in HandshakeOutcomes :
         /\ LogVerify(o, "target", targetExpected, targetAddress)
         /\ IF o.kind = "hang"
            THEN Goto("hung") /\ UNCHANGED targetClient
            ELSE IF HandshakeOk(o, targetExpected, targetAddress)
                 THEN targetClient' = "open" /\ Goto("read_request")
                 ELSE /\ out' = Append(out, [kind |-> "fatal", by |-> "main",
                                             msg |-> "Failed to connect to target"])
                      /\ pc' = "read_request"
                      /\ UNCHANGED targetClient
    /\ UNCHANGED << env, wdVars, exitVars, proxyClient, netlog, xferVars >>

DirectDialFinish ==
    /\ Alive /\ pc = "direct_dial_wait"
    /\ \E o \in HandshakeOutcomes :
         /\ LogVerify(o, "target", targetExpected, targetAddress)
         /\ IF o.kind = "hang"
            THEN Goto("hung") /\ UNCHANGED targetClient
            ELSE IF HandshakeOk(o, targetExpected, targetAddress)
                 THEN targetClient' = "open" /\ Goto("read_request")
                 ELSE Fatalf("Failed to connect to target")
                      /\ UNCHANGED targetClient
    /\ UNCHANGED << env, wdVars, exitVars, proxyClient, netlog, xferVars >>

-----------------------------------------------------------------------------
(* main: the transfer                                                       *)

\* The segments of SOURCE are trimmed and the empty ones dropped.
ReadRequest_Trimmed(sources, targets) ==
    /\ Alive /\ pc = "read_request"
    /\ \E src \in sources, tgt \in targets :
         /\ env' = [env EXCEPT !.SOURCE = src, !.TARGET = tgt]
         /\ LET segs == StringsSplit(src, "\n")
                trimmed == [i \in 1..Len(segs) |-> TrimSpace(segs[i])]
            IN  sourceFiles' = SelectSeq(trimmed, LAMBDA x : x # <<>>)
         /\ targetFolder' = TrimSpace(tgt)
    /\ Goto("if_upload")
    /\ UNCHANGED << wdVars, exitVars, sessVars, netlog, verifyLog, idx,
                    transferredFiles, mainTransferred, copies >>

\* sourceFiles and targetFolder, SOURCE and TARGET drawn from the given sets.
ReadRequest(sources, targets) ==
    /\ Alive /\ pc = "read_request"
    /\ \E src \in sources, tgt \in targets :
         /\ env' = [env EXCEPT !.SOURCE = src, !.TARGET = tgt]
         /\ sourceFiles' = StringsSplit(src, "\n")
         /\ targetFolder' = TrimSpace(tgt)
    /\ Goto("if_upload")
    /\ UNCHANGED << wdVars, exitVars, sessVars, netlog, verifyLog, idx,
                    transferredFiles, mainTransferred, copies >>

\* The destination computed from the whole source path, directories kept.
TargetFile_KeepDir(folder, sourceFile) == PathJoin(folder, sourceFile)

\* The destination Upload and Download compute for one source file.
TargetFile(folder, sourceFile) ==
    LET file == PathSplit(sourceFile)[2] IN PathJoin(folder, file)

\* Entry of Upload / Download: the counter is zeroed and the banner logged.
Enter(fn, banner) ==
    /\ transferredFiles' = 0
    /\ idx' = 1
    /\ out' = Append(out, [kind |-> "info", by |-> "main", msg |-> banner])
    /\ pc' = fn

\* The call of the copy primitive for the current source file.
CopyStart(fn, primitive) ==
    /\ Alive /\ pc = fn /\ idx <= Len(sourceFiles)
    /\ LET sourceFile == sourceFiles[idx]
           targetFile == TargetFile(targetFolder, sourceFile)
       IN  copies' = Append(copies,
                            [ fn |-> primitive, src |-> sourceFile,
                              dst |-> targetFile, result |-> "pending" ])
    /\ Goto(fn \o "_wait")
    /\ UNCHANGED << env, wdVars, exitVars, sessVars, netlog, verifyLog,
                    sourceFiles, targetFolder, idx, transferredFiles,
                    mainTransferred >>

\* A copy error that is logged while the loop goes on to the next source.
CopyFinish_GoesOn(fn, failure) ==
    /\ Alive /\ pc = fn \o "_wait"
    /\ \E r \in {"ok", "fail", "hang"} :
         /\ copies' = [copies EXCEPT ![Len(copies)].result = r]
         /\ CASE r = "ok" ->
                  /\ out' = Append(out,
                                   [ kind |-> "progress", by |-> "main",
                                     src |-> copies[Len(copies)].src,
                                     dst |-> copies[Len(copies)].dst ])
                  /\ transferredFiles' = transferredFiles + 1
                  /\ idx' = idx + 1
                  /\ pc' = fn
              [] r = "fail" ->
                  /\ out' = Append(out, [kind |-> "fatal", by |-> "main",
                                         msg |-> failure])
                  /\ idx' = idx + 1
                  /\ pc' = fn
                  /\ UNCHANGED transferredFiles
              [] r = "hang" ->
                  /\ Goto("hung")
                  /\ UNCHANGED << transferredFiles, idx >>
    /\ UNCHANGED << env, wdVars, exitVars, sessVars, netlog, verifyLog,
                    sourceFiles, targetFolder, mainTransferred >>

\* The progress line is logged before the error of the copy is looked at.
CopyFinish_LogsFirst(fn, failure) ==
    /\ Alive /\ pc = fn \o "_wait"
    /\ \E r \in {"ok", "fail", "hang"} :
         /\ copies' = [copies EXCEPT ![Len(copies)].result = r]
         /\ LET logged == Append(out,
                                 [ kind |-> "progress", by |-> "main",
                                   src |-> copies[Len(copies)].src,
                                   dst |-> copies[Len(copies)].dst ])
            IN  CASE r = "ok" ->
                      /\ out' = logged
                      /\ transferredFiles' = transferredFiles + 1
                      /\ idx' = idx + 1
                      /\ pc' = fn
                  [] r = "fail" ->
                      /\ out' = Append(logged, [kind |-> "fatal", by |-> "main",
                                                msg |-> failure])
                      /\ pc' = "os_exit"
                      /\ UNCHANGED << transferredFiles, idx >>
                  [] r = "hang" ->
                      /\ Goto("hung")
                      /\ UNCHANGED << transferredFiles, idx >>
    /\ UNCHANGED << env, wdVars, exitVars, sessVars, netlog, verifyLog,
                    sourceFiles, targetFolder, mainTransferred >>

\* The return of the copy primitive: fatal on error, else log and count.
CopyFinish(fn, failure) ==
    /\ Alive /\ pc = fn \o "_wait"
    /\ \E r \in {"ok", "fail", "hang"} :
         /\ copies' = [copies EXCEPT ![Len(copies)].result = r]
         /\ CASE r = "ok" ->
                  /\ out' = Append(out,
                                   [ kind |-> "progress", by |-> "main",
                                     src |-> copies[Len(copies)].src,
                                     dst |-> copies[Len(copies)].dst ])
                  /\ transferredFiles' = transferredFiles + 1
                  /\ idx' = idx + 1
                  /\ pc' = fn
              [] r = "fail" ->
                  /\ Fatalf(failure)
                  /\ UNCHANGED << transferredFiles, idx >>
              [] r = "hang" ->
                  /\ Goto("hung")
                  /\ UNCHANGED << transferredFiles, idx >>
    /\ UNCHANGED << env, wdVars, exitVars, sessVars, netlog, verifyLog,
                    sourceFiles, targetFolder, mainTransferred >>

\* The function is called as a statement: its result is dropped.
Return_Discarded(fn, next) ==
    /\ Alive /\ pc = fn /\ idx > Len(sourceFiles)
    /\ Goto(next)
    /\ UNCHANGED << env, wdVars, exitVars, sessVars, netlog, verifyLog,
                    xferVars >>

\* The range loop is exhausted: the counter is returned to main.
Return(fn, next) ==
    /\ Alive /\ pc = fn /\ idx > Len(sourceFiles)
    /\ mainTransferred' = transferredFiles
    /\ Goto(next)
    /\ UNCHANGED << env, wdVars, exitVars, sessVars, netlog, verifyLog,
                    sourceFiles, targetFolder, idx, transferredFiles, copies >>

IfUpload ==
    /\ Alive /\ pc = "if_upload"
    /\ IF direction = DirectionUpload
       THEN Enter("Upload", "Uploading ...")
       ELSE Goto("if_download") /\ UNCHANGED << idx, transferredFiles >>
    /\ UNCHANGED << env, wdVars, exitVars, sessVars, netlog, verifyLog,
                    sourceFiles, targetFolder, mainTransferred, copies >>

ReadTransferRequest == ReadRequest(SourceInputs, TargetInputs)

UploadCopyStart == CopyStart("Upload", "CopyTo")
UploadCopyFinish == CopyFinish("Upload", "Failed to upload file to remote")
UploadReturn == Return("Upload", "if_download")

IfDownload ==
    /\ Alive /\ pc = "if_download"
    /\ IF direction = DirectionDownload
       THEN Enter("Download", "Downloading ...")
       ELSE Goto("print_count") /\ UNCHANGED << idx, transferredFiles >>
    /\ UNCHANGED << env, wdVars, exitVars, sessVars, netlog, verifyLog,
                    sourceFiles, targetFolder, mainTransferred, copies >>

DownloadCopyStart == CopyStart("Download", "CopyFrom")
DownloadCopyFinish ==
    CopyFinish("Download", "Failed to download file from remote")
DownloadReturn == Return("Download", "print_count")

\* The deferred calls run in the order they were registered, proxy first.
PrintCount_ProxyClosedFirst ==
    /\ Alive /\ pc = "print_count"
    /\ out' = Append(out, [kind |-> "count", by |-> "main",
                           n |-> mainTransferred])
    /\ pc' = IF useProxy THEN "defer_proxy_close" ELSE "defer_target_close"
    /\ UNCHANGED << env, wdVars, exitVars, sessVars, netlog, verifyLog,
                    xferVars >>

PrintCount ==
    /\ Alive /\ pc = "print_count"
    /\ out' = Append(out, [kind |-> "count", by |-> "main",
                           n |-> mainTransferred])
    /\ pc' = "defer_target_close"
    /\ UNCHANGED << env, wdVars, exitVars, sessVars, netlog, verifyLog,
                    xferVars >>

\* main returns: the deferred calls run, last registered first.
DeferTargetClose ==
    /\ Alive /\ pc = "defer_target_close"
    /\ targetClient' = "closed"
    /\ Goto(IF useProxy THEN "defer_proxy_close" ELSE "main_return")
    /\ UNCHANGED << env, wdVars, exitVars, proxyClient, netlog, verifyLog,
                    xferVars >>

DeferProxyClose ==
    /\ Alive /\ pc = "defer_proxy_close"
    /\ proxyClient' = "closed"
    /\ Goto("main_return")
    /\ UNCHANGED << env, wdVars, exitVars, targetClient, netlog, verifyLog,
                    xferVars >>

\* main waits for the watchdog goroutine to finish before it returns.
MainReturn_WaitsForWatchdog ==
    /\ Alive /\ pc = "main_return"
    /\ wpc = "done"
    /\ exitStatus' = 0
    /\ exitBy' = "main"
    /\ Goto("exited")
    /\ UNCHANGED << env, wdVars, sessVars, netlog, verifyLog, xferVars >>

MainReturn ==
    /\ Alive /\ pc = "main_return"
    /\ exitStatus' = 0
    /\ exitBy' = "main"
    /\ Goto("exited")
    /\ UNCHANGED << env, wdVars, sessVars, netlog, verifyLog, xferVars >>

\* The os.Exit(1) that ends log.Fatalf: deferred calls do not run.
OsExit ==
    /\ Alive /\ pc = "os_exit"
    /\ exitStatus' = 1
    /\ exitBy' = "main"
    /\ Goto("exited")
    /\ UNCHANGED << env, wdVars, sessVars, netlog, verifyLog, xferVars >>

-----------------------------------------------------------------------------
(* The watchdog goroutine                                                   *)

\* actionTimeoutTimer sends on its channel once the duration has elapsed.
TimerFire ==
    /\ Alive /\ timer = "armed"
    /\ timer' = "fired"
    /\ UNCHANGED << pc, wpc, timersArmed, exitVars, out, env, sessVars, netlog, verifyLog,
                    xferVars >>

\* The receive from the channel and the line log.Fatalf writes.
WatchdogFatalf ==
    /\ Alive /\ wpc = "waiting" /\ timer = "fired"
    /\ out' = Append(out, [kind |-> "fatal", by |-> "watchdog",
                           msg |-> "Failed to run action: action timed out"])
    /\ wpc' = "os_exit"
    /\ UNCHANGED << pc, timer, timersArmed, exitVars, env, sessVars, netlog, verifyLog,
                    xferVars >>

\* A watchdog that logs and returns, leaving the process running.
WatchdogExit_ReturnsOnly ==
    /\ Alive /\ wpc = "os_exit"
    /\ exitBy' = "watchdog"
    /\ wpc' = "done"
    /\ UNCHANGED << pc, timer, timersArmed, exitStatus, out, env, sessVars,
                    netlog, verifyLog, xferVars >>

\* The os.Exit(1) that ends the watchdog's log.Fatalf.
WatchdogExit ==
    /\ Alive /\ wpc = "os_exit"
    /\ exitStatus' = 1
    /\ exitBy' = "watchdog"
    /\ UNCHANGED << pc, wpc, timer, timersArmed, out, env, sessVars, netlog,
                    verifyLog, xferVars >>

-----------------------------------------------------------------------------
Main ==
    \/ ParseActionTimeout \/ ArmWatchdog \/ ParseDirection \/ ParseTimeout
    \/ ParseTargetHost \/ ParseTargetKey \/ TargetConfig \/ CheckProxy
    \/ ParseProxyKey \/ ProxyConfig
    \/ ProxyDialStart \/ ProxyDialFinish \/ TunnelStart \/ TunnelFinish
    \/ TargetHandshakeStart \/ TargetHandshakeFinish
    \/ DirectDialStart \/ DirectDialFinish
    \/ ReadTransferRequest
    \/ IfUpload \/ UploadCopyStart \/ UploadCopyFinish \/ UploadReturn
    \/ IfDownload \/ DownloadCopyStart \/ DownloadCopyFinish \/ DownloadReturn
    \/ PrintCount \/ DeferTargetClose \/ DeferProxyClose \/ MainReturn
    \/ OsExit

Watchdog == TimerFire \/ WatchdogFatalf \/ WatchdogExit

Next == Main \/ Watchdog

Spec == Init /\ [][Next]_vars

\* The same run with SOURCE and TARGET drawn from the smaller sets.
ReadTransferRequestLive == ReadRequest(SourceInputsLive, TargetInputsLive)

MainLive ==
    \/ ParseActionTimeout \/ ArmWatchdog \/ ParseDirection \/ ParseTimeout
    \/ ParseTargetHost \/ ParseTargetKey \/ TargetConfig \/ CheckProxy
    \/ ParseProxyKey \/ ProxyConfig
    \/ ProxyDialStart \/ ProxyDialFinish \/ TunnelStart \/ TunnelFinish
    \/ TargetHandshakeStart \/ TargetHandshakeFinish
    \/ DirectDialStart \/ DirectDialFinish
    \/ ReadTransferRequestLive
    \/ IfUpload \/ UploadCopyStart \/ UploadCopyFinish \/ UploadReturn
    \/ IfDownload \/ DownloadCopyStart \/ DownloadCopyFinish \/ DownloadReturn
    \/ PrintCount \/ DeferTargetClose \/ DeferProxyClose \/ MainReturn
    \/ OsExit

NextLive == MainLive \/ Watchdog

\* The Go scheduler runs every runnable goroutine, and a timer's duration
\* elapses: no enabled step of either goroutine is postponed forever.
FairSpec ==
    /\ Init /\ [][NextLive]_vars
    /\ WF_vars(MainLive)
    /\ WF_vars(TimerFire)
    /\ WF_vars(WatchdogFatalf)
    /\ WF_vars(WatchdogExit)

-----------------------------------------------------------------------------
(* Properties                                                               *)

Exited == exitStatus # -1
Range(seq) == { seq[i] : i \in 1..Len(seq) }
Logged(kind) == { i \in 1..Len(out) : out[i].kind = kind }
TargetOps == {"tunnel", "target_handshake", "target_dial"}
TransferFailed == copies # <<>> /\ copies[Len(copies)].result = "fail"
Matches(e) ==
    FingerprintSHA256(e.key) =
        (IF e.endpoint = "target" THEN env.FINGERPRINT
         ELSE env.PROXY_FINGERPRINT)

\* C1: with a proxy configured, as long as the proxy session has not been
\* established (and so in every run where establishing it fails) no tunnel
\* open, no target handshake and no direct target dial has been started.
C1_ProxyFailureNoTarget ==
    (useProxy /\ proxyClient = "nil") => Range(netlog) \cap TargetOps = {}

C1_Witness ==
    /\ useProxy /\ Exited /\ exitBy = "main"
    /\ netlog = << "proxy_dial" >>
    /\ Len(verifyLog) = 1
    /\ verifyLog[1].endpoint = "proxy"
    /\ verifyLog[1].result = "fingerprint mismatch"

\* C2: when the copy of the i-th source fails after i-1 successes, the
\* counter is i-1, the i-th call is the last call of the copy primitive and
\* main is on its way out; for Upload and Download alike.
C2_AbortAtFirstFailure ==
    \A i \in 1..Len(copies) :
        copies[i].result = "fail" =>
            /\ i = Len(copies)
            /\ transferredFiles = i - 1
            /\ \A j \in 1..(i - 1) : copies[j].result = "ok"
            /\ \A j \in 1..i : copies[j].src = sourceFiles[j]
            /\ pc \in {"os_exit", "exited"}

C2_Witness ==
    /\ Len(sourceFiles) = 3 /\ Len(copies) = 2
    /\ copies[2].result = "fail" /\ copies[2].fn = "CopyFrom"
    /\ transferredFiles = 1
    /\ Exited /\ exitBy = "main"

\* C3 (as claimed): when the main goroutine ends the process, no session it
\* opened is still open.
C3_SessionsClosedAtExit ==
    (Exited /\ exitBy = "main") =>
        (proxyClient # "open" /\ targetClient # "open")

\* C4 (as claimed): a process that ends after the timer has fired ends with
\* the watchdog's deadline failure.
C4_DeadlineAlwaysWins ==
    (Exited /\ timer = "fired") => (exitBy = "watchdog" /\ exitStatus = 1)

\* C4 (amended): once the timer has fired the process terminates, and a main
\* goroutine blocked forever in a network call is ended by the watchdog with
\* status 1.
C4_DeadlineTerminates ==
    /\ (timer = "fired") ~> Exited
    /\ (pc = "hung") ~> (exitBy = "watchdog" /\ exitStatus = 1)

C4_Witness ==
    /\ pc = "hung" /\ copies # <<>>
    /\ exitBy = "watchdog" /\ exitStatus = 1

\* C5: every invocation of the callback returned nil exactly when the
\* fingerprint of the presented key equals the expected string, returned the
\* mismatch failure otherwise, and returns the same for every hostname and
\* remote address.
Hostnames == {"t.example:22", "p.example:22", ""}
C5_VerifyFingerprint ==
    \A i \in 1..Len(verifyLog) :
        LET e == verifyLog[i] IN
        /\ e.result = "nil" <=> FingerprintSHA256(e.key) = e.expected
        /\ e.result # "nil" => e.result = "fingerprint mismatch"
        /\ \A h \in Hostnames, r \in RemoteAddrs :
               VerifyFingerprint(e.expected, h, r, e.key) = e.result

C5_Witness ==
    /\ Len(verifyLog) = 2
    /\ verifyLog[1].result = "nil"
    /\ verifyLog[2].result = "fingerprint mismatch"
    /\ verifyLog[2].expected = "sha256:aaa" /\ verifyLog[2].key = "k1"

\* C6: a copy is started only after the target's key matched FINGERPRINT
\* and, with a proxy, the proxy's key matched PROXY_FINGERPRINT; a key that
\* does not match its own endpoint's fingerprint leaves that endpoint's
\* session and the target session unestablished and no copy is started.
C6_EndpointSpecific ==
    /\ copies # <<>> =>
         /\ \E i \in 1..Len(verifyLog) :
                verifyLog[i].endpoint = "target" /\ Matches(verifyLog[i])
         /\ useProxy =>
                \E i \in 1..Len(verifyLog) :
                    verifyLog[i].endpoint = "proxy" /\ Matches(verifyLog[i])
    /\ \A i \in 1..Len(verifyLog) :
         ~Matches(verifyLog[i]) =>
             /\ targetClient = "nil"
             /\ verifyLog[i].endpoint = "proxy" => proxyClient = "nil"
             /\ copies = <<>>
             /\ i = Len(verifyLog)
             /\ pc \in {"os_exit", "exited"}

C6_Witness ==
    /\ useProxy /\ copies # <<>>
    /\ env.FINGERPRINT # env.PROXY_FINGERPRINT
    /\ Len(verifyLog) = 2

\* C7 (as claimed): when a copy has failed, a line stating the number of
\* files transferred before it is part of the output.
C7_PartialCountReported ==
    (TransferFailed /\ Exited /\ exitBy = "main") =>
        \E i \in Logged("count") : out[i].n = transferredFiles

\* C7 (amended): when a copy has failed the output holds the failure line and
\* no count line; the files transferred before it show only as progress
\* lines, one per completed copy.
C7_PartialCountAsProgress ==
    TransferFailed =>
        /\ Logged("count") = {}
        /\ \E i \in Logged("fatal") : out[i].by = "main"
        /\ Cardinality(Logged("progress")) = transferredFiles
        /\ transferredFiles = Len(copies) - 1

C7_Witness ==
    /\ TransferFailed /\ Exited /\ exitBy = "main"
    /\ transferredFiles = 2 /\ copies[1].fn = "CopyTo"

\* C8: the i-th call of the copy primitive has the i-th source and, as its
\* destination, the destination directory joined with the part of the source
\* after its last slash; Upload and Download differ only in the primitive.
FinalComponent(p) ==
    CHOOSE f \in { SubSeq(p, k, Len(p)) : k \in 1..(Len(p) + 1) } :
        /\ "/" \notin Range(f)
        /\ Len(f) = Len(p) \/ p[Len(p) - Len(f)] = "/"

C8_DestinationMapping ==
    /\ \A i \in 1..Len(copies) :
         /\ copies[i].src = sourceFiles[i]
         /\ copies[i].dst = PathJoin(targetFolder, FinalComponent(copies[i].src))
         /\ copies[i].fn =
              (IF direction = DirectionUpload THEN "CopyTo" ELSE "CopyFrom")
    /\ copies # <<>> => targetFolder = TrimSpace(env.TARGET)

C8_Witness ==
    /\ Len(copies) = 2 /\ copies[2].result = "ok"
    /\ copies[1].fn = "CopyFrom"
    /\ copies[1].src = <<"/", "a", "/", "b">>
    /\ copies[1].dst = <<"/", "o", "/", "b">>
    /\ copies[2].src = <<"a", " ">>
    /\ copies[2].dst = <<"/", "o", "/", "a", " ">>

\* The configuration errors main checks for, and those of the taxonomy.
Malformed(v) == v # "unread" /\ ~ParseDurationOk(v)
DetectedConfigError ==
    \/ Malformed(env.ACTION_TIMEOUT)
    \/ Malformed(env.TIMEOUT)
    \/ env.DIRECTION \notin {"unread", DirectionUpload, DirectionDownload}
    \/ env.HOST = ""
AnyConfigError ==
    \/ DetectedConfigError
    \/ env.FINGERPRINT = ""
    \/ env.PROXY_FINGERPRINT = ""

\* C9 (as claimed): in a run whose configuration has a malformed duration, an
\* invalid direction or an empty required field, no network operation starts.
C9_ConfigErrorNoNetwork == AnyConfigError => netlog = <<>>

\* C9 (amended): a malformed ACTION_TIMEOUT or TIMEOUT, an invalid DIRECTION
\* or an empty HOST ends main before any network operation starts.
C9_DetectedConfigErrorNoNetwork ==
    DetectedConfigError => (netlog = <<>> /\ pc \in {"os_exit", "exited"})

C9_Witness ==
    /\ env.HOST = "" /\ Exited /\ exitStatus = 1
    /\ netlog = <<>> /\ timer = "armed"

\* C10 (as claimed): a finished run either printed the count line, no
\* diagnostic, and has status 0, or printed a diagnostic, no count line, and
\* has a non-zero status.
C10_ExactlyOneOutcome ==
    Exited =>
        \/ exitStatus = 0 /\ Logged("count") # {} /\ Logged("fatal") = {}
        \/ exitStatus # 0 /\ Logged("fatal") # {} /\ Logged("count") = {}

\* The endpoint a key diagnostic names.
KeyDiagnosticNames(msg) ==
    CASE msg = "Failed to parse proxy key" -> "proxy"
      [] msg = "Failed to parse target key" -> "target"
      [] OTHER -> "none"

\* C11 (as claimed): when main is ended by an unparseable key, its
\* diagnostic names the endpoint that supplied the key: the target for KEY,
\* the proxy for PROXY_KEY.
C11_KeyFailureNamesEndpoint ==
    /\ (env.KEY = "garbage" /\ pc \in {"os_exit", "exited"}) =>
           \E i \in Logged("fatal") :
               out[i].by = "main" /\ KeyDiagnosticNames(out[i].msg) = "target"
    /\ (env.PROXY_KEY = "garbage" /\ pc \in {"os_exit", "exited"}) =>
           \E i \in Logged("fatal") :
               out[i].by = "main" /\ KeyDiagnosticNames(out[i].msg) = "proxy"

\* C12 (as claimed): once the timer has fired, no call of the copy primitive
\* begins.
C12_NoCopyAfterTimerFired ==
    [][timer = "fired" => Len(copies') = Len(copies)]_vars

\* C12 (amended): once the watchdog has ended the process, or the timer has
\* fired with main blocked in a network call, no call of the copy primitive
\* begins.
C12_NoCopyAfterWatchdogExit ==
    [][(exitBy = "watchdog" \/ (timer = "fired" /\ pc = "hung"))
          => Len(copies') = Len(copies)]_vars

C12_Witness ==
    /\ exitBy = "watchdog" /\ exitStatus = 1
    /\ Len(copies) = 1 /\ copies[1].result = "pending"
    /\ Len(sourceFiles) = 3

\* What the transfer shows of itself: the successful copies and the progress
\* lines, in order.
OkCopies == SelectSeq(copies, LAMBDA c : c.result = "ok")
ProgressLines == SelectSeq(out, LAMBDA r : r.kind = "progress")
Primitive == IF direction = DirectionUpload THEN "CopyTo" ELSE "CopyFrom"

\* C13: the copy calls, the progress lines and the count line are the same
\* function of the direction, the source list, the destination directory and
\* the outcomes of the copies whether or not a proxy is configured, and every
\* copy runs on an established target session.
C13_TransferIndependentOfProxy ==
    /\ \A i \in 1..Len(copies) :
         copies[i] = [ fn |-> Primitive, src |-> sourceFiles[i],
                       dst |-> TargetFile(targetFolder, sourceFiles[i]),
                       result |-> copies[i].result ]
    /\ ProgressLines =
         [ i \in 1..Len(OkCopies) |->
             [ kind |-> "progress", by |-> "main",
               src |-> OkCopies[i].src, dst |-> OkCopies[i].dst ] ]
    /\ \A i \in Logged("count") :
         out[i].n = Len(OkCopies) /\ Len(OkCopies) = Len(sourceFiles)
    /\ (copies # <<>> /\ copies[Len(copies)].result = "pending")
         => targetClient = "open"

C13_Witness ==
    /\ useProxy /\ exitStatus = 0
    /\ Len(copies) = 2 /\ Logged("count") # {}
    /\ Len(ProgressLines) = 2

\* C14: the network operations start in the order proxy dial, tunnel, target
\* handshake (or the direct dial alone); the tunnel is requested only with
\* the proxy session established, a copy starts only with the target session
\* established, and every copy but the last started has returned success.
C14_StrictOrdering ==
    /\ netlog \in { <<>>, << "proxy_dial" >>, << "proxy_dial", "tunnel" >>,
                    << "proxy_dial", "tunnel", "target_handshake" >>,
                    << "target_dial" >> }
    /\ "tunnel" \in Range(netlog) => proxyClient # "nil"
    /\ copies # <<>> =>
         /\ targetClient # "nil"
         /\ Range(netlog) \cap {"target_handshake", "target_dial"} # {}
    /\ \A i \in 1..(Len(copies) - 1) : copies[i].result = "ok"

C14_Witness ==
    /\ netlog = << "proxy_dial", "tunnel", "target_handshake" >>
    /\ Len(copies) = 3
    /\ copies[3].result = "pending"
    /\ proxyClient = "open" /\ targetClient = "open"

\* C15: the timer is created at most once, and whenever a network operation
\* or a copy has started it has been created exactly once and the watchdog
\* goroutine is waiting on it (or has acted on it).
C15_WatchdogArmedFirst ==
    /\ timersArmed <= 1
    /\ (netlog # <<>> \/ copies # <<>>) =>
         /\ timersArmed = 1
         /\ timer \in {"armed", "fired"}
         /\ wpc \in {"waiting", "os_exit"}
    /\ timersArmed = 0 => (timer = "unarmed" /\ wpc = "none")

C15_Witness ==
    /\ timersArmed = 1 /\ timer = "armed" /\ wpc = "waiting"
    /\ netlog = << "proxy_dial", "tunnel", "target_handshake" >>
    /\ Len(copies) = 2 /\ copies[2].result = "ok"

\* C16: when main has run its deferred calls its return is never blocked,
\* whatever the state of the timer and of the watchdog goroutine, and a
\* process that main ended with status 0 printed the count line with the
\* timer still armed or fired, never stopped.
C16_WatchdogNeverKeepsAlive ==
    /\ (Alive /\ pc = "main_return") => ENABLED MainReturn
    /\ (exitBy = "main" /\ exitStatus = 0) =>
         /\ pc = "exited"
         /\ Logged("count") # {}
         /\ timer \in {"armed", "fired"}
         /\ timersArmed = 1

C16_Witness ==
    /\ exitBy = "main" /\ exitStatus = 0
    /\ timer = "armed" /\ wpc = "waiting"
    /\ Len(OkCopies) = 3

\* C17: the counter of the transfer loop is never negative, equals the
\* number of copy calls that have returned success and never decreases; when
\* the loop has gone through every source, the count returned to main and
\* printed is the length of the source list.
TransferCountOk ==
    /\ transferredFiles >= 0
    /\ transferredFiles = Len(OkCopies)
    /\ pc = "print_count" =>
         (mainTransferred = Len(sourceFiles) /\ Len(OkCopies) = Len(sourceFiles))
    /\ \A i \in Logged("count") :
         out[i].n = Len(sourceFiles) /\ out[i].n = transferredFiles

C17_CountMonotone ==
    /\ []TransferCountOk
    /\ [][transferredFiles' >= transferredFiles]_vars

C17_Witness ==
    /\ Logged("count") # {}
    /\ Len(sourceFiles) = 3 /\ mainTransferred = 3
    /\ direction = DirectionUpload

\* C18: with a proxy, the target session is open only while the proxy
\* session is open, the proxy session is closed only after the target
\* session, and a run that main ends with status 0 has closed both.
C18_ProxyOutlivesTarget ==
    /\ (useProxy /\ targetClient = "open") => proxyClient = "open"
    /\ proxyClient = "closed" => targetClient = "closed"
    /\ (useProxy /\ exitStatus = 0) =>
         (targetClient = "closed" /\ proxyClient = "closed")

C18_Witness ==
    /\ useProxy /\ pc = "defer_proxy_close"
    /\ targetClient = "closed" /\ proxyClient = "open"

\* C19: no network operation is started twice and no source is copied
\* twice; once main has logged a failure it is on its way out, nothing more
\* is started, and the process ends with status 1.
MainFailed == \E i \in Logged("fatal") : out[i].by = "main"

C19_NoRetry ==
    /\ \A i, j \in 1..Len(netlog) : i # j => netlog[i] # netlog[j]
    /\ Len(copies) <= Len(sourceFiles)
    /\ copies # <<>> => Len(copies) \in {idx - 1, idx}
    /\ MainFailed =>
         /\ pc \in {"os_exit", "exited"}
         /\ Cardinality({ i \in Logged("fatal") : out[i].by = "main" }) = 1
         /\ \A i \in 1..Len(copies) : copies[i].result # "pending"
         /\ Exited => exitStatus = 1

C19_Witness ==
    /\ MainFailed /\ Exited /\ exitBy = "main"
    /\ netlog = << "proxy_dial", "tunnel" >>
    /\ out[Len(out)].msg = "Failed to dial to target"

\* C20: the source list is SOURCE cut at every newline, nothing trimmed and
\* no empty segment dropped; the i-th copy has the i-th segment as its source;
\* an empty segment is copied to the destination directory itself, counts
\* when its copy succeeds and ends main when it fails.
NewlineCount(s) == Cardinality({ i \in 1..Len(s) : s[i] = "\n" })

C20_SourceListIsNewlineSplit ==
    sourceFiles # <<>> =>
        /\ Len(sourceFiles) = NewlineCount(env.SOURCE) + 1
        /\ JoinSegments(sourceFiles) = env.SOURCE
        /\ \A i \in 1..Len(sourceFiles) : "\n" \notin Range(sourceFiles[i])
        /\ \A i \in 1..Len(copies) :
             /\ copies[i].src = sourceFiles[i]
             /\ copies[i].src = <<>> =>
                  /\ copies[i].dst = (IF targetFolder = <<>> THEN <<>>
                                      ELSE PathClean(targetFolder))
                  /\ copies[i].result = "fail" => pc \in {"os_exit", "exited"}
        /\ pc = "print_count" =>
             (Len(copies) = Len(sourceFiles)
                /\ mainTransferred = Len(sourceFiles))

C20_Witness ==
    /\ env.SOURCE = << "a", " ", "\n" >>
    /\ sourceFiles = << << "a", " " >>, <<>> >>
    /\ Len(copies) = 2
    /\ copies[2].src = <<>> /\ copies[2].dst = << "/", "o" >>
    /\ \E i \in Logged("count") : out[i].n = 2

====
